---- MODULE Spec2Model ----
(***************************************************************************)
(* LedController web console (static/app.js): the command translator       *)
(* (sendCommand), the WebSocket session (connect and its handlers, the     *)
(* reconnect timer, mount and unmount), the health audit (checkHealth),    *)
(* the bounded message log and the suggestion engine.                      *)
(*                                                                         *)
(* A JavaScript string is a sequence of one-character strings.  A fixed    *)
(* message literal of the source is kept as a single chunk (Lit).          *)
(* A JSON value is a tagged record [t, v].                                 *)
(***************************************************************************)
EXTENDS Integers, Sequences, FiniteSets, TLC

(***************************************************************************)
(* Strings                                                                 *)
(***************************************************************************)
Lit(s) == <<s>>

Whitespace == {" ", "\t"}

Digits == <<"0", "1", "2", "3", "4", "5", "6", "7", "8", "9">>

IsDigit(c) == \E d \in 1..10 : Digits[d] = c

DigitVal(c) == (CHOOSE d \in 1..10 : Digits[d] = c) - 1

Upper == <<"A", "B", "C", "D", "E", "F", "G", "H", "I", "J", "K", "L", "M",
           "N", "O", "P", "Q", "R", "S", "T", "U", "V", "W", "X", "Y", "Z">>

Lower == <<"a", "b", "c", "d", "e", "f", "g", "h", "i", "j", "k", "l", "m",
           "n", "o", "p", "q", "r", "s", "t", "u", "v", "w", "x", "y", "z">>

LowerChar(c) ==
    IF \E k \in 1..26 : Upper[k] = c
    THEN Lower[CHOOSE k \in 1..26 : Upper[k] = c]
    ELSE c

\* String.prototype.toLowerCase
ToLowerCase(s) == [i \in 1..Len(s) |-> LowerChar(s[i])]

\* String.prototype.trim
Trim(s) ==
    LET keep == {i \in 1..Len(s) : s[i] \notin Whitespace}
    IN  IF keep = {} THEN <<>>
        ELSE LET lo == CHOOSE i \in keep : \A j \in keep : i <= j
                 hi == CHOOSE i \in keep : \A j \in keep : j <= i
             IN  SubSeq(s, lo, hi)

\* String.prototype.includes with a one-character needle
IncludesChar(s, c) == \E i \in 1..Len(s) : s[i] = c

\* String.prototype.includes
Includes(s, sub) ==
    \E i \in 1..(Len(s) - Len(sub) + 1) : SubSeq(s, i, i + Len(sub) - 1) = sub

\* a prefix test as it would be if it matched anywhere in the string
StartsWithAnywhere(s, pre) == Includes(s, pre)

\* String.prototype.startsWith
StartsWith(s, pre) == Len(pre) <= Len(s) /\ SubSeq(s, 1, Len(pre)) = pre

\* The pieces of a string cut in two, from the pieces of its halves: the
\* last piece of the left half continues in the first of the right half.
SplitMerge(left, right) ==
    SubSeq(left, 1, Len(left) - 1)
        \o <<left[Len(left)] \o right[1]>>
        \o Tail(right)

RECURSIVE SplitFrom(_, _)
\* The pieces of s between its separators: a separator ends a piece and
\* starts the next one, so there is one more piece than separators.
SplitFrom(s, seps) ==
    IF Len(s) = 0 THEN <<<<>>>>
    ELSE IF Len(s) = 1 THEN (IF s[1] \in seps THEN <<<<>>, <<>>>> ELSE <<s>>)
    ELSE SplitMerge(SplitFrom(SubSeq(s, 1, Len(s) \div 2), seps),
                    SplitFrom(SubSeq(s, (Len(s) \div 2) + 1, Len(s)), seps))

\* String.prototype.split with a one-character separator: one more piece
\* than there are separators, empty pieces kept.
SplitChar(s, c) == SplitFrom(s, {c})

\* String.prototype.split(/\s+/): a run of whitespace is one separator.
SplitWhitespace(s) ==
    LET pieces == SplitFrom(s, Whitespace)
        n == Len(pieces)
        \* an empty piece between two separators of the same run is dropped;
        \* the pieces before the first and after the last separator are kept
        keep == {i \in 1..n : i = 1 \/ i = n \/ pieces[i] # <<>>}
        nth(k) == CHOOSE i \in keep : Cardinality({j \in keep : j < i}) = k - 1
    IN  [k \in 1..Cardinality(keep) |-> pieces[nth(k)]]

RECURSIVE Join(_, _)
\* Array.prototype.join: the parts in order with the separator between
\* neighbours, computed by halves.
Join(parts, sep) ==
    IF Len(parts) = 0 THEN <<>>
    ELSE IF Len(parts) = 1 THEN parts[1]
    ELSE Join(SubSeq(parts, 1, Len(parts) \div 2), sep)
            \o sep
            \o Join(SubSeq(parts, (Len(parts) \div 2) + 1, Len(parts)), sep)

\* String.prototype.replace(/[()]/g, "")
StripParens(s) == SelectSeq(s, LAMBDA c : c \notin {"(", ")"})

(***************************************************************************)
(* JSON values, JSON.stringify, JSON.parse, parseInt                       *)
(***************************************************************************)
JNull == [t |-> "null", v |-> 0]

\* NaN, which parseInt returns for text with no leading integer
JNaN == [t |-> "nan", v |-> 0]

\* undefined, the value of a property an object does not have
JUndefined == [t |-> "undefined", v |-> 0]

JBool(b) == [t |-> "bool", v |-> b]

JNum(n) == [t |-> "num", v |-> n]

JStr(s) == [t |-> "str", v |-> s]

JArr(elems) == [t |-> "arr", v |-> elems]

\* an object: its members <<key, value>> in insertion order
JObj(members) == [t |-> "obj", v |-> members]

RECURSIVE NatToStr(_)
NatToStr(n) ==
    IF n < 10 THEN <<Digits[n + 1]>>
    ELSE NatToStr(n \div 10) \o <<Digits[(n % 10) + 1]>>

\* Number.prototype.toString for an integer
IntToStr(n) == IF n < 0 THEN <<"-">> \o NatToStr(-n) ELSE NatToStr(n)

RECURSIVE DigitsToNat(_)
DigitsToNat(ds) ==
    IF Len(ds) = 0 THEN 0
    ELSE DigitsToNat(SubSeq(ds, 1, Len(ds) - 1)) * 10 + DigitVal(ds[Len(ds)])

\* The end (exclusive) of the run of digits of s that starts at i.
DigitRunEnd(s, i) ==
    CHOOSE e \in i..(Len(s) + 1) :
        /\ (e = Len(s) + 1 \/ ~IsDigit(s[e]))
        /\ \A j \in i..(e - 1) : IsDigit(s[j])

\* The first index at or after i that holds no whitespace.
SkipWs(s, i) ==
    CHOOSE e \in i..(Len(s) + 1) :
        /\ (e = Len(s) + 1 \/ s[e] \notin Whitespace)
        /\ \A j \in i..(e - 1) : s[j] \in Whitespace

\* parseInt(s, 10): leading whitespace is skipped, an optional sign, then
\* the longest run of digits; what follows is ignored; NaN without a digit.
ParseInt(s) ==
    LET i == SkipWs(s, 1)
        signed == i <= Len(s) /\ s[i] \in {"-", "+"}
        d == IF signed THEN i + 1 ELSE i
        e == DigitRunEnd(s, d)
        n == DigitsToNat(SubSeq(s, d, e - 1))
    IN  IF e = d THEN JNaN
        ELSE IF signed /\ s[i] = "-" THEN JNum(-n) ELSE JNum(n)

\* isNaN
IsNaN(x) == x.t = "nan"

\* The value of property key of an object (undefined when it has none, or
\* when the value is no object).
GetProp(x, key) ==
    IF x.t = "obj" /\ \E k \in 1..Len(x.v) : x.v[k][1] = key
    THEN x.v[CHOOSE k \in 1..Len(x.v) : x.v[k][1] = key][2]
    ELSE JUndefined

\* Assigning a property while an object literal is parsed: a repeated key
\* keeps its place and takes the later value.
SetMember(members, key, val) ==
    IF \E k \in 1..Len(members) : members[k][1] = key
    THEN [k \in 1..Len(members) |->
             IF members[k][1] = key THEN <<key, val>> ELSE members[k]]
    ELSE Append(members, <<key, val>>)

\* A string inside JSON text: quoted, with quote and backslash escaped.
Quote(s) ==
    LET esc(c) == IF c \in {"\"", "\\"} THEN <<"\\", c>> ELSE <<c>>
        RECURSIVE body(_)
        body(r) == IF Len(r) = 0 THEN <<>> ELSE esc(Head(r)) \o body(Tail(r))
    IN  <<"\"">> \o body(s) \o <<"\"">>

RECURSIVE Stringify(_)
\* JSON.stringify: no whitespace, members in insertion order, NaN as null,
\* an undefined member left out.
Stringify(x) ==
    CASE x.t = "null" -> <<"n", "u", "l", "l">>
      [] x.t = "nan" -> <<"n", "u", "l", "l">>
      [] x.t = "bool" -> IF x.v THEN <<"t", "r", "u", "e">>
                         ELSE <<"f", "a", "l", "s", "e">>
      [] x.t = "num" -> IntToStr(x.v)
      [] x.t = "str" -> Quote(x.v)
      [] x.t = "arr" ->
            <<"[">> \o Join([k \in 1..Len(x.v) |->
                               IF x.v[k].t = "undefined"
                               THEN <<"n", "u", "l", "l">>
                               ELSE Stringify(x.v[k])], <<",">>) \o <<"]">>
      [] x.t = "obj" ->
            LET shown == SelectSeq(x.v, LAMBDA m : m[2].t # "undefined")
            IN  <<"{">> \o Join([k \in 1..Len(shown) |->
                                   Quote(shown[k][1]) \o <<":">>
                                       \o Stringify(shown[k][2])], <<",">>)
                    \o <<"}">>

ParseFail == [ok |-> FALSE, v |-> JNull, next |-> 0]

ParseOk(val, next) == [ok |-> TRUE, v |-> val, next |-> next]

\* A JSON string literal at i (s[i] is the opening quote).  Escape
\* sequences are not part of the modelled alphabet: a backslash ends the
\* parse with a failure.
ParseString(s, i) ==
    IF ~\E e \in (i + 1)..Len(s) : s[e] = "\""
    THEN ParseFail
    ELSE LET e == CHOOSE q \in (i + 1)..Len(s) :
                      s[q] = "\"" /\ \A j \in (i + 1)..(q - 1) : s[j] # "\""
         IN  IF \E j \in (i + 1)..(e - 1) : s[j] = "\\"
             THEN ParseFail
             ELSE ParseOk(JStr(SubSeq(s, i + 1, e - 1)), e + 1)

\* A JSON number at i: -?(0|[1-9][0-9]*); fractions and exponents are not
\* part of the modelled alphabet.
ParseNumber(s, i) ==
    LET neg == s[i] = "-"
        d == IF neg THEN i + 1 ELSE i
        e == DigitRunEnd(s, d)
        n == DigitsToNat(SubSeq(s, d, e - 1))
    IN  IF e = d THEN ParseFail
        ELSE IF s[d] = "0" /\ e > d + 1 THEN ParseFail
        ELSE ParseOk(JNum(IF neg THEN -n ELSE n), e)

ParseWord(s, i, word, val) ==
    IF i + Len(word) - 1 <= Len(s) /\ SubSeq(s, i, i + Len(word) - 1) = word
    THEN ParseOk(val, i + Len(word))
    ELSE ParseFail

RECURSIVE ParseValue(_, _)
RECURSIVE ParseElems(_, _, _)
RECURSIVE ParseMembers(_, _, _)

\* The JSON value that starts at or after i, and the index after it.
ParseValue(s, i) ==
    LET j == SkipWs(s, i)
    IN  IF j > Len(s) THEN ParseFail
        ELSE CASE s[j] = "n" -> ParseWord(s, j, <<"n", "u", "l", "l">>, JNull)
               [] s[j] = "t" -> ParseWord(s, j, <<"t", "r", "u", "e">>, JBool(TRUE))
               [] s[j] = "f" ->
                     ParseWord(s, j, <<"f", "a", "l", "s", "e">>, JBool(FALSE))
               [] s[j] = "\"" -> ParseString(s, j)
               [] s[j] = "-" \/ IsDigit(s[j]) -> ParseNumber(s, j)
               [] s[j] = "[" ->
                     LET k == SkipWs(s, j + 1)
                     IN  IF k <= Len(s) /\ s[k] = "]"
                         THEN ParseOk(JArr(<<>>), k + 1)
                         ELSE ParseElems(s, j + 1, <<>>)
               [] s[j] = "{" ->
                     LET k == SkipWs(s, j + 1)
                     IN  IF k <= Len(s) /\ s[k] = "}"
                         THEN ParseOk(JObj(<<>>), k + 1)
                         ELSE ParseMembers(s, j + 1, <<>>)
               [] OTHER -> ParseFail

\* The elements of an array from i on, up to its closing bracket.
ParseElems(s, i, acc) ==
    LET r == ParseValue(s, i)
        k == SkipWs(s, r.next)
    IN  IF ~r.ok \/ k > Len(s) THEN ParseFail
        ELSE IF s[k] = "," THEN ParseElems(s, k + 1, Append(acc, r.v))
        ELSE IF s[k] = "]" THEN ParseOk(JArr(Append(acc, r.v)), k + 1)
        ELSE ParseFail

\* The members of an object from i on, up to its closing brace.
ParseMembers(s, i, acc) ==
    LET j == SkipWs(s, i)
        key == IF j <= Len(s) /\ s[j] = "\"" THEN ParseString(s, j) ELSE ParseFail
        c == SkipWs(s, key.next)
        r == ParseValue(s, c + 1)
        k == SkipWs(s, r.next)
    IN  IF ~key.ok \/ c > Len(s) THEN ParseFail
        ELSE IF s[c] # ":" THEN ParseFail
        ELSE IF ~r.ok \/ k > Len(s) THEN ParseFail
        ELSE IF s[k] = ","
             THEN ParseMembers(s, k + 1, SetMember(acc, key.v.v, r.v))
        ELSE IF s[k] = "}"
             THEN ParseOk(JObj(SetMember(acc, key.v.v, r.v)), k + 1)
        ELSE ParseFail

\* JSON.parse: [ok |-> FALSE] stands for the SyntaxError it throws.
JSONParse(s) ==
    LET r == ParseValue(s, 1)
    IN  IF r.ok /\ SkipWs(s, r.next) > Len(s)
        THEN [ok |-> TRUE, v |-> r.v]
        ELSE [ok |-> FALSE, v |-> JNull]

(***************************************************************************)
(* Words of the command grammar and keys of the wire objects               *)
(***************************************************************************)
W_log == <<"l", "o", "g">>

W_videolist == <<"v", "i", "d", "e", "o", "l", "i", "s", "t">>

W_video == <<"v", "i", "d", "e", "o">>

W_stop == <<"s", "t", "o", "p">>

W_brightness == <<"b", "r", "i", "g", "h", "t", "n", "e", "s", "s">>

W_piano == <<"p", "i", "a", "n", "o">>

W_christmas == <<"c", "h", "r", "i", "s", "t", "m", "a", "s">>

W_setall == <<"s", "e", "t", "a", "l", "l">>

W_update == <<"u", "p", "d", "a", "t", "e">>

W_difference == <<"d", "i", "f", "f", "e", "r", "e", "n", "c", "e">>

W_info == <<"i", "n", "f", "o">>

W_persistent == <<"p", "e", "r", "s", "i", "s", "t", "e", "n", "t">>

W_debug == <<"d", "e", "b", "u", "g">>

W_error == <<"e", "r", "r", "o", "r">>

K_command == <<"c", "o", "m", "m", "a", "n", "d">>

K_data == <<"d", "a", "t", "a">>

K_controller == <<"c", "o", "n", "t", "r", "o", "l", "l", "e", "r">>

K_window == <<"w", "i", "n", "d", "o", "w">>

K_persistent == <<"p", "e", "r", "s", "i", "s", "t", "e", "n", "t">>

K_color == <<"c", "o", "l", "o", "r">>

K_error == <<"e", "r", "r", "o", "r">>

K_status == <<"s", "t", "a", "t", "u", "s">>

K_videos == <<"v", "i", "d", "e", "o", "s">>

(***************************************************************************)
(* Program constants                                                       *)
(***************************************************************************)
MAX_MESSAGES == 100

\* the number of colours an update command carries
UPDATE_COUNT == 400

\* the length of the colour a setall command carries
SETALL_LENGTH == 6

\* a log entry; its text is the JavaScript value pushed
Entry(text, type) == [text |-> text, type |-> type]

\* an entry whose text is a message literal of the source
LitEntry(s, type) == Entry(JStr(Lit(s)), type)

(***************************************************************************)
(* sendCommand: the translation of the trimmed input to a payload          *)
(***************************************************************************)
\* What translation does: the entries it pushes, whether sendCommand
\* returns before its send step, and the payload otherwise.
Rejected(text) ==
    [entries |-> <<LitEntry(text, "error")>>, returned |-> TRUE, payload |-> JNull]

Built(payload) == [entries |-> <<>>, returned |-> FALSE, payload |-> payload]

Cmd(name) == JObj(<<<<K_command, JStr(name)>>>>)

CmdData(name, data) == JObj(<<<<K_command, JStr(name)>>, <<K_data, data>>>>)

\* case "log"
TranslateLog(args) ==
    Built(CmdData(W_log, JStr(IF args # <<>> THEN ToLowerCase(args) ELSE W_info)))

\* case "video"
TranslateVideo(args) ==
    IF args = <<>>
    THEN Rejected("video command requires a video name")
    ELSE Built(CmdData(W_video, JStr(args)))

\* case "brightness"
BrightnessPayload(brightnessValue) ==
    IF IsNaN(brightnessValue)
    THEN Rejected("brightness command requires a numeric value")
    ELSE Built(CmdData(W_brightness, brightnessValue))

TranslateBrightness(args) == BrightnessPayload(ParseInt(args))

\* the early return for a missing controller or window index
PianoNoIndex == [ok |-> FALSE, controller |-> JNaN, windowIdx |-> JNaN, rest |-> <<>>]

\* The controller and window of a piano command and the tokens left after
\* them, from the "c,w" form of the first token, split at its commas (cw).
PianoCommaForm(tokens, cw) ==
    IF Len(cw) < 2 THEN PianoNoIndex
    ELSE [ok |-> TRUE,
          controller |-> ParseInt(Trim(cw[1])),
          windowIdx |-> ParseInt(Trim(cw[2])),
          rest |-> Tail(tokens)]

\* the two-token form as it would be with the two numbers exchanged
PianoTwoTokenSwapped(tokens) ==
    IF Len(tokens) < 2 THEN PianoNoIndex
    ELSE [ok |-> TRUE,
          controller |-> ParseInt(Trim(tokens[2])),
          windowIdx |-> ParseInt(Trim(tokens[1])),
          rest |-> SubSeq(tokens, 3, Len(tokens))]

\* ... and from the two-token form.
PianoTwoTokenForm(tokens) ==
    IF Len(tokens) < 2 THEN PianoNoIndex
    ELSE [ok |-> TRUE,
          controller |-> ParseInt(Trim(tokens[1])),
          windowIdx |-> ParseInt(Trim(tokens[2])),
          rest |-> SubSeq(tokens, 3, Len(tokens))]

\* A token with a comma, split at its commas: the colour, or an error
\* entry; the callback's return after the entry ends that call only.
PianoColor(acc, colorParts) ==
    IF Len(colorParts) # 3
    THEN [acc EXCEPT !.entries =
             Append(@, LitEntry("Error: color must be in the format R,G,B", "error"))]
    ELSE [acc EXCEPT !.color = JArr([k \in 1..3 |-> ParseInt(Trim(colorParts[k]))])]

\* One call of the forEach callback, for the trimmed token: acc holds
\* persistent, color and the entries pushed so far.
PianoToken(acc, token) ==
    IF ToLowerCase(token) = W_persistent
    THEN [acc EXCEPT !.persistent = TRUE]
    ELSE IF IncludesChar(token, ",")
    THEN PianoColor(acc, SplitChar(token, ","))
    ELSE acc

RECURSIVE PianoScan(_, _)
\* tokens.forEach
PianoScan(acc, tokens) ==
    IF Len(tokens) = 0 THEN acc
    ELSE PianoScan(PianoToken(acc, Trim(Head(tokens))), Tail(tokens))

\* persistent and color before the scan
PianoDefaults ==
    [persistent |-> FALSE,
     color |-> JArr(<<JNum(255), JNum(255), JNum(255)>>),
     entries |-> <<>>]

\* the payload of a piano command, and the entries its scan pushed
PianoPayload(head, scan) ==
    [entries |-> scan.entries,
     returned |-> FALSE,
     payload |-> CmdData(W_piano,
                         JObj(<<<<K_controller, head.controller>>,
                                <<K_window, head.windowIdx>>,
                                <<K_persistent, JBool(scan.persistent)>>,
                                <<K_color, scan.color>>>>))]

\* a piano command once controller and window are read
PianoHead(head) ==
    IF ~head.ok
    THEN Rejected("Error: piano command requires a controller and window index")
    ELSE PianoPayload(head, PianoScan(PianoDefaults, head.rest))

\* a piano command once its arguments are split into tokens
PianoTokens(tokens) ==
    IF Len(tokens) < 1
    THEN Rejected("Error: piano command requires at least a controller and window index")
    ELSE IF IncludesChar(tokens[1], ",")
    THEN PianoHead(PianoCommaForm(tokens, SplitChar(tokens[1], ",")))
    ELSE PianoHead(PianoTwoTokenForm(tokens))

\* case "piano"
TranslatePiano(args) == PianoTokens(SplitWhitespace(Trim(args)))

\* case "setall"
TranslateSetall(args) ==
    IF args = <<>> \/ Len(args) # SETALL_LENGTH
    THEN Rejected("setall command requires a 6-digit hex color")
    ELSE Built(CmdData(W_setall, JStr(args)))

\* the update check as it would be if it only refused lists that are
\* too short
UpdatePayloadAtLeast(hexColors) ==
    IF Len(hexColors) < UPDATE_COUNT
    THEN Rejected("update command requires 400 comma-separated hex colors")
    ELSE Built(CmdData(W_update,
                       JArr([k \in 1..Len(hexColors) |-> JStr(hexColors[k])])))

\* an update command once its arguments are split and trimmed
UpdatePayload(hexColors) ==
    IF Len(hexColors) # UPDATE_COUNT
    THEN Rejected("update command requires 400 comma-separated hex colors")
    ELSE Built(CmdData(W_update,
                       JArr([k \in 1..Len(hexColors) |-> JStr(hexColors[k])])))

\* args.split(",").map((s) => s.trim())
SplitTrimmed(split) == [k \in 1..Len(split) |-> Trim(split[k])]

\* case "update"
TranslateUpdate(args) == UpdatePayload(SplitTrimmed(SplitChar(args, ",")))

\* a pair as it would be if only the index lost its parentheses
DiffPairHexUnstripped(diffParts, k) ==
    JArr(<<JStr(StripParens(diffParts[2 * k - 1])),
           JStr(diffParts[2 * k])>>)

\* pair k of a difference command: parts 2k-1 and 2k without parentheses
DiffPair(diffParts, k) ==
    JArr(<<JStr(StripParens(diffParts[2 * k - 1])),
           JStr(StripParens(diffParts[2 * k]))>>)

\* a difference command once its arguments are split and trimmed
DifferencePayload(diffParts) ==
    IF Len(diffParts) % 2 # 0
    THEN Rejected("difference command requires pairs of values")
    ELSE Built(CmdData(W_difference,
                       JArr([k \in 1..(Len(diffParts) \div 2) |->
                                DiffPair(diffParts, k)])))

\* case "difference"
TranslateDifference(args) == DifferencePayload(SplitTrimmed(SplitChar(args, ",")))

\* the switch of sendCommand
Switch(command, args) ==
    CASE command = W_log -> TranslateLog(args)
      [] command = W_videolist -> Built(Cmd(W_videolist))
      [] command = W_video -> TranslateVideo(args)
      [] command = W_stop -> Built(Cmd(W_stop))
      [] command = W_brightness -> TranslateBrightness(args)
      [] command = W_piano -> TranslatePiano(args)
      [] command = W_christmas -> Built(Cmd(W_christmas))
      [] command = W_setall -> TranslateSetall(args)
      [] command = W_update -> TranslateUpdate(args)
      [] command = W_difference -> TranslateDifference(args)
      [] OTHER -> Rejected("Unknown command")

\* the command name and the arguments, from the text split at its spaces
TranslateParts(parts) == Switch(ToLowerCase(parts[1]), Join(Tail(parts), <<" ">>))

\* The catch branch of sendCommand: the text is no JSON.
TranslateText(cmdText) == TranslateParts(SplitChar(cmdText, " "))

\* sendCommand as it would be if JSON input went through the switch too
TranslateParsedChecked(cmdText, parsed) == TranslateText(cmdText)

\* sendCommand's try and catch, for the outcome of JSON.parse(cmdText)
TranslateParsed(cmdText, parsed) ==
    IF parsed.ok THEN Built(parsed.v) ELSE TranslateText(cmdText)

\* The translation of the trimmed input: input that parses as JSON is the
\* payload; any other text goes through the switch.
Translate(cmdText) == TranslateParsed(cmdText, JSONParse(cmdText))

(***************************************************************************)
(* State                                                                   *)
(***************************************************************************)
VARIABLES
    phase,                    \* "created" after setup, "mounted", "unmounted"
    currentCommand,           \* the input text
    messages,                 \* the log
    socket,                   \* the current socket: an index of sockets, 0 for null
    sockets,                  \* the readyState of every WebSocket constructed
    reconnectTimers,          \* pending setTimeout(connect, 5000) timers
    healthCheckInterval,      \* "null", "armed" or "cleared"
    healthFetches,            \* checkHealth calls awaiting their response
    videoList,
    filteredSuggestions,
    selectedSuggestionIndex,
    sent,                     \* what socket.send has put on the wire, in order
    events                    \* external events handled so far (bounds the run)

vars == <<phase, currentCommand, messages, socket, sockets, reconnectTimers,
          healthCheckInterval, healthFetches, videoList, filteredSuggestions,
          selectedSuggestionIndex, sent, events>>

suggestionVars == <<filteredSuggestions, selectedSuggestionIndex>>

socketVars == <<socket, sockets, reconnectTimers>>

healthVars == <<healthCheckInterval, healthFetches>>

(***************************************************************************)
(* Bounds                                                                  *)
(***************************************************************************)
\* external events (socket, user, health) in one run
MaxEvents == 5

knownCommands ==
    <<<<"l", "o", "g", " ", "[", "l", "e", "v", "e", "l", "]">>,
      <<"v", "i", "d", "e", "o", "l", "i", "s", "t">>,
      <<"v", "i", "d", "e", "o", " ", "<", "v", "i", "d", "e", "o",
        "_", "n", "a", "m", "e", ">">>,
      <<"s", "t", "o", "p">>,
      <<"b", "r", "i", "g", "h", "t", "n", "e", "s", "s", " ", "<",
        "0", "-", "2", "5", "5", ">">>,
      <<"p", "i", "a", "n", "o", " ", "<", "c", "o", "n", "t", "r",
        "o", "l", "l", "e", "r", ",", "w", "i", "n", "d", "o", "w",
        ">", " ", "[", "p", "e", "r", "s", "i", "s", "t", "e", "n",
        "t", "]", " ", "[", "r", ",", " ", "g", ",", " ", "b", "]">>,
      <<"c", "h", "r", "i", "s", "t", "m", "a", "s">>,
      <<"s", "e", "t", "a", "l", "l", " ", "<", "6", "-", "d", "i",
        "g", "i", "t", " ", "h", "e", "x", ">">>,
      <<"u", "p", "d", "a", "t", "e", " ", "<", "4", "0", "0", " ",
        "c", "o", "m", "m", "a", "-", "s", "e", "p", "a", "r", "a",
        "t", "e", "d", " ", "h", "e", "x", " ", "c", "o", "l", "o",
        "r", "s", ">">>,
      <<"d", "i", "f", "f", "e", "r", "e", "n", "c", "e", " ", "<",
        "(", "i", "n", "d", "e", "x", ")", ",", " ", "h", "e", "x",
        ",", " ", "(", "i", "n", "d", "e", "x", ")", ",", " ", "h",
        "e", "x", ",", " ", ".", ".", ".", ">">>>>

(***************************************************************************)
(* The log                                                                 *)
(***************************************************************************)
\* the log as it would be if entries were put at its head (unshift)
PushFront(log, entry) == <<entry>> \o log

\* messages.value.push
Push(log, entry) == Append(log, entry)

\* if (messages.value.length > MAX_MESSAGES) messages.value.shift()
Evict(log) == IF Len(log) > MAX_MESSAGES THEN Tail(log) ELSE log

WelcomeEntry == LitEntry("Welcome to the LED Controller WebSocket Client!", "info")

\* the four entries onMounted pushes
MountEntries ==
    <<LitEntry("Type a command and press Enter to send it as JSON to the server.",
               "info"),
      LitEntry("Use the up and down arrow keys to select a suggestion and press Enter to choose it.",
               "info"),
      Entry(JStr(Lit("Known commands: ") \o Join(knownCommands, <<",", " ">>)),
            "info"),
      LitEntry("Connecting to WebSocket...", "info")>>

(***************************************************************************)
(* The session: connect and the socket's handlers                          *)
(***************************************************************************)
\* the state after setup()
Init ==
    /\ phase = "created"
    /\ currentCommand = <<>>
    /\ messages = <<WelcomeEntry>>
    /\ socket = 0
    /\ sockets = <<>>
    /\ reconnectTimers = 0
    /\ healthCheckInterval = "null"
    /\ healthFetches = 0
    /\ videoList = <<>>
    /\ filteredSuggestions = <<>>
    /\ selectedSuggestionIndex = -1
    /\ sent = <<>>
    /\ events = 0

\* an external event is handled
Event == events < MaxEvents /\ events' = events + 1

\* connect(): a new WebSocket, CONNECTING, becomes the current socket
Connect ==
    /\ sockets' = Append(sockets, "CONNECTING")
    /\ socket' = Len(sockets) + 1

\* the sockets whose close event has not fired
Unclosed == {i \in 1..Len(sockets) : sockets[i] # "CLOSED"}

\* socket.onopen
OnOpen(i) ==
    /\ Event
    /\ sockets[i] = "CONNECTING"
    /\ sockets' = [sockets EXCEPT ![i] = "OPEN"]
    /\ messages' = Push(messages, LitEntry("Connected to WebSocket.", "info"))
    /\ UNCHANGED <<phase, currentCommand, socket, reconnectTimers, healthVars,
                   videoList, suggestionVars, sent>>

\* Array.isArray(incoming.videos), for a value that is truthy when an array
IsArray(x) == x.t = "arr"

\* the type as it would be if a status field came before an error field
ParsedTypeStatusFirst(incoming) ==
    IF GetProp(incoming, K_status).t # "undefined" THEN "status"
    ELSE IF GetProp(incoming, K_error).t # "undefined" THEN "error"
    ELSE "info"

\* The try block of onmessage for data that parsed to `incoming`: the
\* type and text of the entry.  A property read of null throws, which
\* sends the handler to its catch block like a parse failure.
ParsedType(incoming) ==
    IF GetProp(incoming, K_error).t # "undefined" THEN "error"
    ELSE IF GetProp(incoming, K_status).t # "undefined" THEN "status"
    ELSE "info"

ParsedText(incoming) ==
    IF GetProp(incoming, K_error).t # "undefined" THEN GetProp(incoming, K_error)
    ELSE IF GetProp(incoming, K_status).t # "undefined"
    THEN GetProp(incoming, K_status)
    ELSE JStr(Stringify(incoming))

\* the type from the raw text as it would be if debug output had a
\* severity of its own name
RawTypeTrace(data) ==
    IF Includes(ToLowerCase(data), W_debug) THEN "trace"
    ELSE IF Includes(ToLowerCase(data), W_error) THEN "error"
    ELSE "info"

\* The catch block of onmessage: the type from the raw text.
RawType(data) ==
    LET dataLower == ToLowerCase(data)
    IN  IF Includes(dataLower, W_debug) THEN "debug"
        ELSE IF Includes(dataLower, W_error) THEN "error"
        ELSE "info"

\* whether the try block of onmessage runs to its end, for the outcome
\* of JSON.parse(event.data)
TryCompletes(parsed) == parsed.ok /\ parsed.v.t # "null"

\* the entry onmessage pushes
EntryOf(data, parsed) ==
    IF TryCompletes(parsed)
    THEN Entry(ParsedText(parsed.v), ParsedType(parsed.v))
    ELSE Entry(JStr(data), RawType(data))

MessageEntry(data) == EntryOf(data, JSONParse(data))

\* videoList after onmessage
VideosOf(parsed, videos) ==
    IF TryCompletes(parsed) /\ IsArray(GetProp(parsed.v, K_videos))
    THEN GetProp(parsed.v, K_videos).v
    ELSE videos

MessageVideos(data, videos) == VideosOf(JSONParse(data), videos)

\* socket.onmessage
OnMessage(i, data) ==
    /\ Event
    /\ sockets[i] \in {"OPEN", "CLOSING"}
    /\ videoList' = MessageVideos(data, videoList)
    /\ messages' = Evict(Push(messages, MessageEntry(data)))
    /\ UNCHANGED <<phase, currentCommand, socketVars, healthVars,
                   suggestionVars, sent>>

\* onerror as it would be if it too set a reconnect timer
ErrorTimersReconnect(n) == n + 1

\* onerror as it would be if an error on an open socket set a reconnect
\* timer
ErrorTimersWhenOpen(n) ==
    IF socket # 0 /\ sockets[socket] = "OPEN" THEN n + 1 ELSE n

\* the timers pending after onerror, which sets none
ErrorTimers(n) == n

\* socket.onerror (error.message is undefined for a WebSocket error event)
OnError(i) ==
    /\ Event
    /\ sockets[i] # "CLOSED"
    /\ messages' = Push(messages,
                        Entry(JStr(Lit("WebSocket Error: ") \o Lit("Unknown error")),
                              "error"))
    /\ reconnectTimers' = ErrorTimers(reconnectTimers)
    /\ UNCHANGED <<phase, currentCommand, socket, sockets, healthVars,
                   videoList, suggestionVars, sent>>

\* onclose as it would be if it set its timer twice
CloseTimersTwice(n) == n + 2

\* onclose as it would be if it gave up after the second attempt
CloseTimersCapped(n) == IF Len(sockets) < 2 THEN n + 1 ELSE n

\* the timers pending after onclose's setTimeout(connect, 5000)
CloseTimers(n) == n + 1

\* socket.onclose
OnClose(i) ==
    /\ Event
    /\ sockets[i] # "CLOSED"
    /\ sockets' = [sockets EXCEPT ![i] = "CLOSED"]
    /\ messages' = Push(messages, LitEntry("WebSocket connection closed.", "warning"))
    /\ reconnectTimers' = CloseTimers(reconnectTimers)
    /\ UNCHANGED <<phase, currentCommand, socket, healthVars, videoList,
                   suggestionVars, sent>>

\* a timer set by onclose fires: connect()
ReconnectTimer ==
    /\ reconnectTimers > 0
    /\ reconnectTimers' = reconnectTimers - 1
    /\ Connect
    /\ UNCHANGED <<phase, currentCommand, messages, healthVars, videoList,
                   suggestionVars, sent, events>>

(***************************************************************************)
(* The health audit                                                        *)
(***************************************************************************)
\* checkHealth up to its first await: the request is under way
StartHealthCheck == healthFetches' = healthFetches + 1

\* the report filter as it would be if it kept every device
UnreachableAny(data) == data

\* Object.entries(data).filter(([ip, status]) => status !== "OK")
Unreachable(data) == SelectSeq(data, LAMBDA e : e[2] # JStr(<<"O", "K">>))

\* The entry checkHealth pushes for a response: data is the device report
\* (its entries <<ip, status>> in order) when failed is FALSE, and the
\* message of the error thrown otherwise.
HealthEntry(failed, data) ==
    IF failed
    THEN Entry(JStr(Lit("Error fetching health status: ") \o data), "error")
    ELSE IF Len(Unreachable(data)) > 0
    THEN Entry(JStr(Lit("Warning: The following devices are unreachable: ")
                    \o Join([k \in 1..Len(Unreachable(data)) |->
                                Unreachable(data)[k][1]], <<",", " ">>)),
               "warning")
    ELSE LitEntry("All devices are healthy.", "info")

\* the interval as it would be if a failed audit cancelled it
IntervalStopsOnFailure(failed, interval) == IF failed THEN "cleared" ELSE interval

\* the interval after checkHealth, which never touches it
IntervalAfterResult(failed, interval) == interval

\* checkHealth after its awaits
HealthResult(failed, data) ==
    /\ Event
    /\ healthFetches > 0
    /\ healthFetches' = healthFetches - 1
    /\ messages' = Push(messages, HealthEntry(failed, data))
    /\ healthCheckInterval' = IntervalAfterResult(failed, healthCheckInterval)
    /\ UNCHANGED <<phase, currentCommand, socketVars, videoList,
                   suggestionVars, sent>>

\* the interval set by onMounted fires: checkHealth()
HealthTick ==
    /\ Event
    /\ healthCheckInterval = "armed"
    /\ StartHealthCheck
    /\ UNCHANGED <<phase, currentCommand, messages, socketVars,
                   healthCheckInterval, videoList, suggestionVars, sent>>

(***************************************************************************)
(* Mount and unmount                                                       *)
(***************************************************************************)
\* onMounted
Mount ==
    /\ Event
    /\ phase = "created"
    /\ phase' = "mounted"
    /\ messages' = messages \o MountEntries
    /\ Connect
    /\ StartHealthCheck
    /\ healthCheckInterval' = "armed"
    /\ UNCHANGED <<currentCommand, reconnectTimers, videoList, suggestionVars,
                   sent>>

\* WebSocket.close(): a socket not yet closing or closed starts closing
CloseSocket(state) == IF state \in {"CONNECTING", "OPEN"} THEN "CLOSING" ELSE state

\* the timers pending after onUnmounted
UnmountTimers(n) == n

\* onUnmounted as it would be without its clearInterval
ClearIntervalSkipped(interval) == interval

\* if (healthCheckInterval) clearInterval(healthCheckInterval)
ClearInterval(interval) == IF interval # "null" THEN "cleared" ELSE interval

\* onUnmounted
Unmount ==
    /\ Event
    /\ phase = "mounted"
    /\ phase' = "unmounted"
    /\ sockets' = IF socket # 0
                  THEN [sockets EXCEPT ![socket] = CloseSocket(@)]
                  ELSE sockets
    /\ healthCheckInterval' = ClearInterval(healthCheckInterval)
    /\ reconnectTimers' = UnmountTimers(reconnectTimers)
    /\ UNCHANGED <<currentCommand, messages, socket, healthFetches, videoList,
                   suggestionVars, sent>>

(***************************************************************************)
(* sendCommand                                                             *)
(***************************************************************************)
\* the user edits the input (the v-model binding of currentCommand)
TypeInput(text) ==
    /\ Event
    /\ phase = "mounted"
    /\ currentCommand' = text
    /\ UNCHANGED <<phase, messages, socketVars, healthVars, videoList,
                   suggestionVars, sent>>

\* the send guard as it would be without the readyState test
SocketOpenAnyState == socket # 0

\* socket && socket.readyState === WebSocket.OPEN
SocketOpen == socket # 0 /\ sockets[socket] = "OPEN"

\* a transmission: the socket and the text given to socket.send
Wire(sock, data) == [socket |-> sock, data |-> data]

\* the entry as it would be without the "> " before the message
CommandEntryBare(jsonMessage) == Entry(JStr(jsonMessage), "command")

\* { text: "> " + jsonMessage, type: "command" }
CommandEntry(jsonMessage) == Entry(JStr(Lit("> ") \o jsonMessage), "command")

\* The send step of sendCommand: entries are those translation pushed,
\* jsonMessage is JSON.stringify(jsonPayload).
SendStep(input, entries, jsonMessage) ==
    IF SocketOpen
    THEN /\ sent' = Append(sent, Wire(socket, jsonMessage))
         /\ messages' = Evict(Push(messages \o entries, CommandEntry(jsonMessage)))
         /\ currentCommand' = <<>>
         /\ filteredSuggestions' = <<>>
         /\ selectedSuggestionIndex' = -1
    ELSE /\ messages' = Push(messages \o entries,
                             LitEntry("WebSocket not connected.", "error"))
         /\ currentCommand' = input
         /\ UNCHANGED <<suggestionVars, sent>>

\* sendCommand once the text is translated: a return inside the switch
\* leaves after the entries pushed so far
SubmitTranslated(input, tr) ==
    IF tr.returned
    THEN /\ messages' = messages \o tr.entries
         /\ currentCommand' = input
         /\ UNCHANGED <<suggestionVars, sent>>
    ELSE SendStep(input, tr.entries, Stringify(tr.payload))

\* sendCommand as it would be if it tested the input before trimming it
SubmitTrimmedRaw(input, cmdText) ==
    IF input = <<>>
    THEN /\ currentCommand' = input
         /\ UNCHANGED <<messages, suggestionVars, sent>>
    ELSE SubmitTranslated(input, Translate(cmdText))

\* sendCommand once the input is trimmed: empty text returns at once
SubmitTrimmed(input, cmdText) ==
    IF cmdText = <<>>
    THEN /\ currentCommand' = input
         /\ UNCHANGED <<messages, suggestionVars, sent>>
    ELSE SubmitTranslated(input, Translate(cmdText))

\* sendCommand, run with `input` as the value of currentCommand
Submit(input) ==
    /\ Event
    /\ phase = "mounted"
    /\ SubmitTrimmed(input, Trim(input))
    /\ UNCHANGED <<phase, socketVars, healthVars, videoList>>

\* sendCommand, on Enter
SendCommand == Submit(currentCommand)

\* the text pianoKey puts in the input
PianoKeyText(controller, window) ==
    Trim(W_piano \o <<" ">> \o IntToStr(controller) \o <<",">> \o IntToStr(window)
         \o <<" ">>
         \o (IF Includes(currentCommand, W_persistent) THEN W_persistent ELSE <<>>))

\* pianoKey
PianoKey(controller, window) == Submit(PianoKeyText(controller, window))

(***************************************************************************)
(* Inputs                                                                  *)
(***************************************************************************)
\* what the user types in a session
SessionInputs ==
    {<<>>,
     <<"s", "t", "o", "p">>,
     <<"f", "o", "o">>,
     <<"p", "i", "a", "n", "o", " ", "1", ",", "2", " ", "3", ",", "4">>}

\* the piano keys the user clicks: <<controller, window>>
PianoKeys == {<<0, 1>>}

\* what the server sends
InboundData ==
    {<<"{", "\"", "s", "t", "a", "t", "u", "s", "\"", ":", "\"", "o", "k", "\"", "}">>,
     <<"D", "E", "B", "U", "G", " ", "x">>}

\* what the health endpoint answers: <<failed, data>>
HealthResponses ==
    {<<FALSE, <<>>>>,
     <<FALSE, <<<<Lit("10.0.0.1"), JStr(<<"O", "K">>)>>,
                <<Lit("10.0.0.2"), JStr(Lit("TIMEOUT"))>>>>>>,
     <<TRUE, Lit("Failed to fetch")>>}

(***************************************************************************)
(* The session from setup on                                               *)
(***************************************************************************)
Next ==
    \/ Mount
    \/ Unmount
    \/ \E i \in 1..Len(sockets) : OnOpen(i)
    \/ \E i \in 1..Len(sockets) : \E data \in InboundData : OnMessage(i, data)
    \/ \E i \in 1..Len(sockets) : OnError(i)
    \/ \E i \in 1..Len(sockets) : OnClose(i)
    \/ ReconnectTimer
    \/ HealthTick
    \/ \E r \in HealthResponses : HealthResult(r[1], r[2])
    \/ \E text \in SessionInputs : TypeInput(text)
    \/ SendCommand
    \/ \E k \in PianoKeys : PianoKey(k[1], k[2])

Spec == Init /\ [][Next]_vars

\* The session alone: mount, unmount, the socket's events and the timer.
NextSession ==
    \/ Mount
    \/ Unmount
    \/ \E i \in 1..Len(sockets) : OnOpen(i)
    \/ \E i \in 1..Len(sockets) : \E data \in InboundData : OnMessage(i, data)
    \/ \E i \in 1..Len(sockets) : OnError(i)
    \/ \E i \in 1..Len(sockets) : OnClose(i)
    \/ ReconnectTimer

\* The reconnect timer is a browser timer: once set it fires.
SpecLive == Init /\ [][NextSession]_vars /\ WF_vars(ReconnectTimer)

(***************************************************************************)
(* Properties of the session                                               *)
(***************************************************************************)
\* the sockets whose close event has fired
Closed == {i \in 1..Len(sockets) : sockets[i] = "CLOSED"}

\* the sockets that are connecting or connected
Live == {i \in 1..Len(sockets) : sockets[i] \in {"CONNECTING", "OPEN"}}

\* this step is the close event of a socket
CloseStep == \E i \in 1..Len(sockets) : sockets[i] # "CLOSED" /\ sockets'[i] = "CLOSED"

\* this step is a call of connect()
ConnectStep == Len(sockets') = Len(sockets) + 1

\* this step appends exactly one entry, of the given type
AppendsOne(type) ==
    /\ Len(messages') = Len(messages) + 1
    /\ SubSeq(messages', 1, Len(messages)) = messages
    /\ messages'[Len(messages')].type = type

\* this step is a submission by the user: sendCommand on Enter or a piano key
SubmitStep == SendCommand \/ \E k \in PianoKeys : PianoKey(k[1], k[2])

\* C2: after teardown (onUnmounted) has run, connect() is never invoked
\* again, so no new socket is opened after shutdown.
C2_NoConnectAfterTeardown == [][phase = "unmounted" => ~ConnectStep]_vars

\* C3: each close event of a socket appends exactly one warning entry and
\* schedules exactly one connect() call; each firing of the reconnect timer
\* makes exactly one connect() call; so the close events are, one for one,
\* the connect() calls the timer has issued and the timers still pending.
C3_OneReconnectPerClose ==
    /\ [](phase # "created" =>
             Cardinality(Closed) = (Len(sockets) - 1) + reconnectTimers)
    /\ [][CloseStep =>
             /\ AppendsOne("warning")
             /\ reconnectTimers' = reconnectTimers + 1
             /\ ~ConnectStep]_vars
    /\ [][reconnectTimers' < reconnectTimers =>
             /\ reconnectTimers' = reconnectTimers - 1
             /\ ConnectStep]_vars

\* two sockets have closed, and each close has had its one reconnect
C3_Witness ==
    /\ Cardinality(Closed) = 2
    /\ Len(sockets) = 3
    /\ reconnectTimers = 0

\* C4: at every moment at most one socket created by connect() is
\* connecting or connected.
C4_AtMostOneLiveSocket == Cardinality(Live) <= 1

\* a reconnect has opened while the socket before it is closed
C4_Witness ==
    /\ Len(sockets) >= 2
    /\ sockets[1] = "CLOSED"
    /\ sockets[2] = "OPEN"

\* C5: absent teardown, every close of a socket is eventually followed by a
\* new connect(), whatever the number of closes before it.
C5_CloseLeadsToConnect ==
    \A n \in 1..MaxEvents :
        (Cardinality(Closed) >= n) ~> (Len(sockets) >= n + 1 \/ phase = "unmounted")

\* two attempts in a row have failed while connecting (no socket ever
\* opened), and a third socket exists
C5_Witness ==
    /\ Cardinality(Closed) >= 2
    /\ Len(sockets) >= 3
    /\ phase = "mounted"
    /\ \A k \in 1..Len(messages) :
           messages[k] # LitEntry("Connected to WebSocket.", "info")

\* translation of the text succeeds: it reaches the send step and has
\* pushed no entry
TranslatesCleanly(input) ==
    /\ Trim(input) # <<>>
    /\ ~Translate(Trim(input)).returned
    /\ Translate(Trim(input)).entries = <<>>

\* C6: a command that translates successfully, submitted while the socket
\* is absent or not open, transmits nothing, appends exactly one error
\* entry and leaves the input text unchanged; and nothing is ever
\* transmitted by a step that is not a submission, such as the opening of
\* a later connection.
C6_NotConnectedKeepsInput ==
    /\ [][(SendCommand /\ TranslatesCleanly(currentCommand)
              /\ (socket = 0 \/ sockets[socket] # "OPEN")) =>
             /\ sent' = sent
             /\ AppendsOne("error")
             /\ currentCommand' = currentCommand]_vars
    /\ [][sent' # sent => SubmitStep]_vars

\* "stop" was submitted while not connected, the connection has opened
\* since, and nothing has been transmitted
C6_Witness ==
    /\ SocketOpen
    /\ sent = <<>>
    /\ currentCommand = <<"s", "t", "o", "p">>
    /\ \E k \in 1..Len(messages) :
           messages[k] = LitEntry("WebSocket not connected.", "error")

\* C7: a submission of non-JSON text whose translation appends a
\* validation error entry never transmits anything on the socket.
C7_ValidationErrorNeverSends ==
    [][(SendCommand /\ ~JSONParse(Trim(currentCommand)).ok
           /\ Translate(Trim(currentCommand)).entries # <<>>) =>
          sent' = sent]_vars

(***************************************************************************)
(* A session whose log is nearly full                                      *)
(***************************************************************************)
\* a status message of the server
StatusOk == <<"{", "\"", "s", "t", "a", "t", "u", "s", "\"", ":", "\"", "o", "k", "\"", "}">>

\* The log after mount, the opening of the socket, and status messages up
\* to two entries short of the cap.
NearlyFullLog ==
    <<WelcomeEntry>> \o MountEntries
        \o <<LitEntry("Connected to WebSocket.", "info")>>
        \o [k \in 1..(MAX_MESSAGES - 8) |-> MessageEntry(StatusOk)]

\* The state after Mount, OnOpen(1) and MAX_MESSAGES - 8 status messages
\* on socket 1.
InitLog ==
    /\ phase = "mounted"
    /\ currentCommand = <<>>
    /\ messages = NearlyFullLog
    /\ socket = 1
    /\ sockets = <<"OPEN">>
    /\ reconnectTimers = 0
    /\ healthCheckInterval = "armed"
    /\ healthFetches = 1
    /\ videoList = <<>>
    /\ filteredSuggestions = <<>>
    /\ selectedSuggestionIndex = -1
    /\ sent = <<>>
    /\ events = 0

NextLog ==
    \/ Unmount
    \/ \E i \in 1..Len(sockets) : OnOpen(i)
    \/ \E i \in 1..Len(sockets) : \E data \in InboundData : OnMessage(i, data)
    \/ \E i \in 1..Len(sockets) : OnError(i)
    \/ \E i \in 1..Len(sockets) : OnClose(i)
    \/ ReconnectTimer
    \/ HealthTick
    \/ \E r \in HealthResponses : HealthResult(r[1], r[2])
    \/ \E text \in SessionInputs : TypeInput(text)
    \/ SendCommand
    \/ \E k \in PianoKeys : PianoKey(k[1], k[2])

SpecLog == InitLog /\ [][NextLog]_vars

\* C1: in every reachable state the message log holds at most
\* MAX_MESSAGES (100) entries.
C1_LogWithinCap == Len(messages) <= MAX_MESSAGES

(***************************************************************************)
(* Submissions of piano, update and difference commands                    *)
(***************************************************************************)
\* the log once the console is mounted and its socket has opened
ConnectedLog ==
    <<WelcomeEntry>> \o MountEntries
        \o <<LitEntry("Connected to WebSocket.", "info")>>

\* controller and window numbers the user types
PianoNumbers == {-3, 0, 42}

\* the tokens the user types after controller and window
PianoRests ==
    {<<>>,
     <<"p", "e", "r", "s", "i", "s", "t", "e", "n", "t">>,
     <<"1", ",", "2", ",", "3">>,
     <<"P", "E", "R", "S", "I", "S", "T", "E", "N", "T", " ", " ", "1", "0", ",", "2", "0", ",", "3", "0">>,
     <<"1", ",", "2">>,
     <<"7", ",", "8", ",", "9", " ", "x", " ", "p", "e", "r", "s", "i", "s", "t", "e", "n", "t">>}

\* piano c,w <rest>
CommaFormText(c, w, rest) ==
    W_piano \o <<" ">> \o IntToStr(c) \o <<",">> \o IntToStr(w) \o <<" ">> \o rest

\* piano c w <rest>
TwoTokenFormText(c, w, rest) ==
    W_piano \o <<" ">> \o IntToStr(c) \o <<" ">> \o IntToStr(w) \o <<" ">> \o rest

PianoTexts ==
    {CommaFormText(c, w, rest) : c \in PianoNumbers, w \in PianoNumbers, rest \in PianoRests}
        \cup
    {TwoTokenFormText(c, w, rest) : c \in PianoNumbers, w \in PianoNumbers, rest \in PianoRests}

\* How the user writes an element of a comma-separated list: as it is,
\* after a space, or between tabs and spaces.
ListStyles == {"plain", "spaced", "padded"}

Padded(style, elem) ==
    CASE style = "plain" -> elem
      [] style = "spaced" -> <<" ">> \o elem
      [] style = "padded" -> <<"\t", " ">> \o elem \o <<" ", " ">>

\* element k of a typed update list: the number k, so that every element
\* differs from the others
HexElem(k) == NatToStr(k)

\* numbers of elements of the update lists the user types
UpdateCounts == {1, 2, 399, 400, 401}

\* update e1,e2,...,en
UpdateText(n, style) ==
    W_update \o <<" ">>
        \o Join([k \in 1..n |-> Padded(style, HexElem(k))], <<",">>)

UpdateTexts ==
    {W_update} \cup {UpdateText(n, style) : n \in UpdateCounts, style \in ListStyles}

\* How the user writes the parentheses of a difference list: around the
\* index as documented, nowhere, around the hex value too with a stray
\* one inside, or around a space-padded index.
ParenStyles == {"index", "none", "both", "inner"}

\* element k of a typed difference list without its parentheses: an index
\* at the odd places, a hex value at the even ones
DiffElem(k) ==
    IF k % 2 = 1 THEN NatToStr((k - 1) \div 2) ELSE <<"f", "f">> \o NatToStr(k)

Parenthesized(pstyle, k) ==
    CASE pstyle = "index" ->
            IF k % 2 = 1 THEN <<"(">> \o DiffElem(k) \o <<")">> ELSE DiffElem(k)
      [] pstyle = "none" -> DiffElem(k)
      [] pstyle = "both" ->
            IF k % 2 = 1 THEN <<"(", "(">> \o DiffElem(k) \o <<")">>
            ELSE <<"(", "f", ")", "f">> \o NatToStr(k) \o <<")">>
      [] pstyle = "inner" ->
            IF k % 2 = 1 THEN <<"(", " ">> \o DiffElem(k) \o <<" ", ")">>
            ELSE DiffElem(k)

\* what is left of the trimmed element k once its parentheses are removed
Unparenthesized(pstyle, k) ==
    IF pstyle = "inner" /\ k % 2 = 1
    THEN <<" ">> \o DiffElem(k) \o <<" ">>
    ELSE DiffElem(k)

\* numbers of elements of the difference lists the user types
DiffCounts == 1..6

\* difference e1,e2,...,en
DifferenceText(n, pstyle, style) ==
    W_difference \o <<" ">>
        \o Join([k \in 1..n |-> Padded(style, Parenthesized(pstyle, k))], <<",">>)

DifferenceTexts ==
    {W_difference}
        \cup {DifferenceText(n, pstyle, style) :
                 n \in DiffCounts, pstyle \in ParenStyles, style \in ListStyles}

\* Inputs that are JSON, each with the text JSON.stringify gives for the
\* value it parses to: unknown commands, data the text form would refuse,
\* values that are no command object.
JsonCases ==
    {<<<<" ", "{", "\"", "c", "o", "m", "m", "a", "n", "d", "\"", ":", "\"", "n", "o", "p", "e", "\"", "}", " ">>,
       <<"{", "\"", "c", "o", "m", "m", "a", "n", "d", "\"", ":", "\"", "n", "o", "p", "e", "\"", "}">>>>,
     <<<<"{", "\"", "c", "o", "m", "m", "a", "n", "d", "\"", ":", "\"", "s", "e", "t", "a", "l", "l", "\"", ",", "\"", "d", "a", "t", "a", "\"", ":", "\"", "f", "f", "\"", "}">>,
       <<"{", "\"", "c", "o", "m", "m", "a", "n", "d", "\"", ":", "\"", "s", "e", "t", "a", "l", "l", "\"", ",", "\"", "d", "a", "t", "a", "\"", ":", "\"", "f", "f", "\"", "}">>>>,
     <<<<"{", " ", "\"", "c", "o", "m", "m", "a", "n", "d", "\"", " ", ":", " ", "\"", "u", "p", "d", "a", "t", "e", "\"", " ", ",", " ", "\"", "d", "a", "t", "a", "\"", " ", ":", " ", "[", " ", "]", " ", "}">>,
       <<"{", "\"", "c", "o", "m", "m", "a", "n", "d", "\"", ":", "\"", "u", "p", "d", "a", "t", "e", "\"", ",", "\"", "d", "a", "t", "a", "\"", ":", "[", "]", "}">>>>,
     <<<<"{", "\"", "c", "o", "m", "m", "a", "n", "d", "\"", ":", "\"", "p", "i", "a", "n", "o", "\"", ",", "\"", "d", "a", "t", "a", "\"", ":", "{", "\"", "c", "o", "n", "t", "r", "o", "l", "l", "e", "r", "\"", ":", "\"", "x", "\"", "}", "}">>,
       <<"{", "\"", "c", "o", "m", "m", "a", "n", "d", "\"", ":", "\"", "p", "i", "a", "n", "o", "\"", ",", "\"", "d", "a", "t", "a", "\"", ":", "{", "\"", "c", "o", "n", "t", "r", "o", "l", "l", "e", "r", "\"", ":", "\"", "x", "\"", "}", "}">>>>,
     <<<<"{", "\"", "d", "a", "t", "a", "\"", ":", "1", "}">>,
       <<"{", "\"", "d", "a", "t", "a", "\"", ":", "1", "}">>>>,
     <<<<"4", "2">>,
       <<"4", "2">>>>,
     <<<<"n", "u", "l", "l">>,
       <<"n", "u", "l", "l">>>>,
     <<<<"\"", "s", "t", "o", "p", "\"">>,
       <<"\"", "s", "t", "o", "p", "\"">>>>,
     <<<<"[", "1", ",", "\"", "a", "\"", ",", "t", "r", "u", "e", "]">>,
       <<"[", "1", ",", "\"", "a", "\"", ",", "t", "r", "u", "e", "]">>>>}

JsonTexts == {c[1] : c \in JsonCases}

\* piano commands whose controller or window is no number
PianoNaNTexts ==
    {<<"p", "i", "a", "n", "o", " ", "x", ",", "2">>,
     <<"p", "i", "a", "n", "o", " ", "1", ",", "y">>,
     <<"p", "i", "a", "n", "o", " ", "a", " ", "b">>,
     <<"p", "i", "a", "n", "o", " ", "1", " ", "b">>,
     <<"p", "i", "a", "n", "o", " ", "x", ",", "y", " ", "p", "e", "r", "s", "i", "s", "t", "e", "n", "t", " ", "1", ",", "2", ",", "3">>,
     <<"p", "i", "a", "n", "o", " ", ",", "2">>}

\* the commands the user has typed when the submissions are examined
TranslateInputs ==
    PianoTexts \cup UpdateTexts \cup DifferenceTexts \cup JsonTexts \cup PianoNaNTexts

\* The state after Mount, OnOpen(1) and the typing of a command.
InitTranslate ==
    /\ phase = "mounted"
    /\ currentCommand \in TranslateInputs
    /\ messages = ConnectedLog
    /\ socket = 1
    /\ sockets = <<"OPEN">>
    /\ reconnectTimers = 0
    /\ healthCheckInterval = "armed"
    /\ healthFetches = 1
    /\ videoList = <<>>
    /\ filteredSuggestions = <<>>
    /\ selectedSuggestionIndex = -1
    /\ sent = <<>>
    /\ events = 1

NextTranslate == SendCommand

SpecTranslate == InitTranslate /\ [][NextTranslate]_vars

(***************************************************************************)
(* Properties of the translation                                           *)
(***************************************************************************)
\* this step transmits exactly one message, the given payload serialized
Transmits(payload) == sent' = Append(sent, Wire(socket, Stringify(payload)))

\* this step is refused: one error entry, nothing transmitted
Refused == sent' = sent /\ AppendsOne("error")

\* C8: for all integers c and w and every sequence of trailing tokens,
\* `piano c,w <rest>` and `piano c w <rest>` give the same payload (same
\* controller, window, persistent flag and color): submitting either form
\* transmits the payload the other form translates to.
C8_PianoFormsAgree ==
    [][\A c \in PianoNumbers, w \in PianoNumbers, rest \in PianoRests :
          /\ (currentCommand = CommaFormText(c, w, rest) /\ SendCommand)
                => Transmits(Translate(Trim(TwoTokenFormText(c, w, rest))).payload)
          /\ (currentCommand = TwoTokenFormText(c, w, rest) /\ SendCommand)
                => Transmits(Translate(Trim(CommaFormText(c, w, rest))).payload)]_vars

\* `piano -3 42 PERSISTENT  10,20,30` or its comma form has been sent
C8_Witness ==
    /\ currentCommand = <<>>
    /\ Len(sent) = 1
    /\ sent[1].data =
          Stringify(CmdData(W_piano,
              JObj(<<<<K_controller, JNum(-3)>>,
                     <<K_window, JNum(42)>>,
                     <<K_persistent, JBool(TRUE)>>,
                     <<K_color, JArr(<<JNum(10), JNum(20), JNum(30)>>)>>>>)))

\* C9: `update <args>` is translated and sent if and only if <args> split
\* at its commas has exactly 400 elements, and the data sent is the list
\* of the 400 trimmed elements in input order; with 399 or 401 elements,
\* or no argument, the submission is refused with one error entry and
\* nothing is sent.
C9_UpdateNeeds400 ==
    [][/\ \A n \in UpdateCounts, style \in ListStyles :
            (currentCommand = UpdateText(n, style) /\ SendCommand)
                => IF n = 400
                   THEN Transmits(CmdData(W_update,
                            JArr([k \in 1..400 |-> JStr(HexElem(k))])))
                   ELSE Refused
       /\ (currentCommand = W_update /\ SendCommand) => Refused]_vars

\* an update of 400 elements has been sent
C9_Witness ==
    /\ currentCommand = <<>>
    /\ Len(messages) = Len(ConnectedLog) + 1
    /\ sent = <<Wire(1, Stringify(CmdData(W_update,
                            JArr([k \in 1..400 |-> JStr(HexElem(k))]))))>>

\* C10: `difference <args>` is translated and sent if and only if <args>
\* split at its commas has an even number of elements, and the data sent
\* is the list of count/2 pairs, in input order, of the trimmed elements
\* with every parenthesis removed; an odd count, or no argument, is
\* refused with one error entry and nothing is sent.
C10_DifferencePairs ==
    [][/\ \A n \in DiffCounts, pstyle \in ParenStyles, style \in ListStyles :
            (currentCommand = DifferenceText(n, pstyle, style) /\ SendCommand)
                => IF n % 2 = 0
                   THEN Transmits(CmdData(W_difference,
                            JArr([j \in 1..(n \div 2) |->
                                    JArr(<<JStr(Unparenthesized(pstyle, 2 * j - 1)),
                                           JStr(Unparenthesized(pstyle, 2 * j))>>)])))
                   ELSE Refused
       /\ (currentCommand = W_difference /\ SendCommand) => Refused]_vars

\* a difference of two pairs has been sent: [["0","ff2"],["1","ff4"]]
C10_Witness ==
    /\ currentCommand = <<>>
    /\ Len(sent) = 1
    /\ sent[1].data =
          Stringify(CmdData(W_difference,
              JArr(<<JArr(<<JStr(<<"0">>), JStr(<<"f", "f", "2">>)>>),
                     JArr(<<JStr(<<"1">>), JStr(<<"f", "f", "4">>)>>)>>)))

(***************************************************************************)
(* The health audit                                                        *)
(***************************************************************************)
\* the devices of the installation
DeviceIds == {Lit("10.0.0.1"), Lit("10.0.0.2")}

\* the status tokens the endpoint reports
StatusTokens == {JStr(<<"O", "K">>), JStr(Lit("TIMEOUT")), JStr(<<"o", "k">>)}

\* the reports on no device, on one device and on both, in either order
HealthReports ==
    {<<>>}
        \cup {<<<<d, t>>>> : d \in DeviceIds, t \in StatusTokens}
        \cup {<<<<p[1], t1>>, <<p[2], t2>>>> :
                 p \in {q \in DeviceIds \X DeviceIds : q[1] # q[2]},
                 t1 \in StatusTokens, t2 \in StatusTokens}

\* the messages of the errors checkHealth catches: fetch rejects, the
\* response is not ok, response.json() rejects
HealthFailures ==
    {Lit("Failed to fetch"),
     Lit("HTTP error! status: 500"),
     Lit("Unexpected token < in JSON at position 0")}

\* what an audit ends with: <<failed, data>>
AuditOutcomes ==
    {<<FALSE, report>> : report \in HealthReports}
        \cup {<<TRUE, message>> : message \in HealthFailures}

\* The state after Mount.
InitHealth ==
    /\ phase = "mounted"
    /\ currentCommand = <<>>
    /\ messages = <<WelcomeEntry>> \o MountEntries
    /\ socket = 1
    /\ sockets = <<"CONNECTING">>
    /\ reconnectTimers = 0
    /\ healthCheckInterval = "armed"
    /\ healthFetches = 1
    /\ videoList = <<>>
    /\ filteredSuggestions = <<>>
    /\ selectedSuggestionIndex = -1
    /\ sent = <<>>
    /\ events = 1

NextHealth ==
    \/ HealthTick
    \/ \E r \in AuditOutcomes : HealthResult(r[1], r[2])
    \/ Unmount

SpecHealth == InitHealth /\ [][NextHealth]_vars

\* the devices of a report whose token is not the literal OK
NotOk(report) ==
    {report[k][1] : k \in {j \in 1..Len(report) : report[j][2].v # <<"O", "K">>}}

\* the entry's text names the device
Names(entry, device) ==
    \E i \in 1..Len(entry.text.v) : <<entry.text.v[i]>> = device

\* the last entry of the log after this step
Appended == messages'[Len(messages')]

\* C11: every completed health audit appends exactly one log entry: one
\* warning naming every device whose token is not "OK" and no device whose
\* token is "OK" if there is such a device; one info entry if all tokens
\* are "OK" or the report is empty; one error entry if the request or the
\* parse fails.
C11_OneEntryPerAudit ==
    [][/\ \A report \in HealthReports :
            HealthResult(FALSE, report) =>
                IF NotOk(report) # {}
                THEN /\ AppendsOne("warning")
                     /\ \A d \in DeviceIds : Names(Appended, d) <=> d \in NotOk(report)
                ELSE AppendsOne("info")
       /\ \A message \in HealthFailures :
            HealthResult(TRUE, message) => AppendsOne("error")]_vars

\* the audit that found 10.0.0.1 OK and 10.0.0.2 timed out has ended
C11_Witness ==
    /\ Len(messages) = 6
    /\ messages[6].type = "warning"
    /\ Names(messages[6], Lit("10.0.0.2"))
    /\ ~Names(messages[6], Lit("10.0.0.1"))
    /\ healthFetches = 0

(***************************************************************************)
(* Suggestions                                                             *)
(***************************************************************************)
\* the remainder operator of JavaScript: the sign is that of the dividend
JsMod(a, n) == IF a >= 0 THEN a % n ELSE -((-a) % n)

RECURSIVE TemplateString(_)
\* the string a template literal makes of a value (`${video}`)
TemplateString(x) ==
    CASE x.t = "str" -> x.v
      [] x.t = "num" -> IntToStr(x.v)
      [] x.t = "bool" -> IF x.v THEN <<"t", "r", "u", "e">>
                         ELSE <<"f", "a", "l", "s", "e">>
      [] x.t = "null" -> <<"n", "u", "l", "l">>
      [] x.t = "arr" ->
            Join([k \in 1..Len(x.v) |->
                    IF x.v[k].t = "null" THEN <<>> ELSE TemplateString(x.v[k])],
                 <<",">>)
      [] OTHER -> Lit("[object Object]")

\* knownCommands.filter(cmd => cmd.toLowerCase().startsWith(input))
StaticSuggestions(input) ==
    SelectSeq(knownCommands, LAMBDA cmd : StartsWith(ToLowerCase(cmd), input))

\* `video ${video}`
VideoSuggestion(video) == W_video \o <<" ">> \o TemplateString(video)

\* videoList.value.map(...).filter(...)
DynamicSuggestions(input, videos) ==
    SelectSeq([k \in 1..Len(videos) |-> VideoSuggestion(videos[k])],
              LAMBDA suggestion : StartsWith(ToLowerCase(suggestion), input))

\* the candidates filterSuggestions sets for the lower-cased input
Filtered(input, videos) ==
    IF input = <<>> THEN <<>>
    ELSE StaticSuggestions(input) \o DynamicSuggestions(input, videos)

\* the cursor as it would be if filtering left it where it was
CursorKeptByFilter(index) == index

\* selectedSuggestionIndex.value = -1, on both paths of filterSuggestions
CursorAfterFilter(index) == -1

\* filterSuggestions
FilterSuggestions ==
    /\ phase = "mounted"
    /\ filteredSuggestions' = Filtered(ToLowerCase(currentCommand), videoList)
    /\ selectedSuggestionIndex' = CursorAfterFilter(selectedSuggestionIndex)
    /\ UNCHANGED <<phase, currentCommand, messages, socketVars, healthVars,
                   videoList, sent, events>>

\* the cursor as it would move if it stopped at the last candidate
NextIndexNoWrap(index, n) == IF index + 1 < n THEN index + 1 ELSE n - 1

\* (selectedSuggestionIndex.value + 1) % filteredSuggestions.value.length
NextIndex(index, n) == JsMod(index + 1, n)

\* selectNextSuggestion
SelectNextSuggestion ==
    /\ phase = "mounted"
    /\ IF Len(filteredSuggestions) > 0
       THEN /\ selectedSuggestionIndex' =
                   NextIndex(selectedSuggestionIndex, Len(filteredSuggestions))
            /\ currentCommand' = filteredSuggestions[selectedSuggestionIndex' + 1]
       ELSE UNCHANGED <<selectedSuggestionIndex, currentCommand>>
    /\ UNCHANGED <<phase, messages, socketVars, healthVars, videoList,
                   filteredSuggestions, sent, events>>

\* selectedSuggestionIndex.value--, then the last candidate if below zero
PrevIndex(index, n) == IF index - 1 < 0 THEN n - 1 ELSE index - 1

\* selectPrevSuggestion
SelectPrevSuggestion ==
    /\ phase = "mounted"
    /\ IF Len(filteredSuggestions) > 0
       THEN /\ selectedSuggestionIndex' =
                   PrevIndex(selectedSuggestionIndex, Len(filteredSuggestions))
            /\ currentCommand' = filteredSuggestions[selectedSuggestionIndex' + 1]
       ELSE UNCHANGED <<selectedSuggestionIndex, currentCommand>>
    /\ UNCHANGED <<phase, messages, socketVars, healthVars, videoList,
                   filteredSuggestions, sent, events>>

\* the candidate as it would be if the first were always taken
ChosenFirst(list, index) == list[1]

\* filteredSuggestions.value[index]
Chosen(list, index) == list[index + 1]

\* chooseSuggestion(index), for a candidate of the list
ChooseSuggestion(index) ==
    /\ phase = "mounted"
    /\ index \in 0..(Len(filteredSuggestions) - 1)
    /\ currentCommand' = Chosen(filteredSuggestions, index)
    /\ filteredSuggestions' = <<>>
    /\ selectedSuggestionIndex' = -1
    /\ UNCHANGED <<phase, messages, socketVars, healthVars, videoList, sent,
                   events>>

\* hideSuggestions
HideSuggestions ==
    /\ phase = "mounted"
    /\ filteredSuggestions' = <<>>
    /\ selectedSuggestionIndex' = -1
    /\ UNCHANGED <<phase, currentCommand, messages, socketVars, healthVars,
                   videoList, sent, events>>

\* what the user types while looking for a suggestion
SuggestInputs ==
    {<<>>, <<"s">>, <<"V">>, <<"t">>, <<" ", "\t">>,
     <<"v", "i", "d", "e", "o", " ", "s">>}

\* the list of videos the server announces
VideosFrame == <<"{", "\"", "v", "i", "d", "e", "o", "s", "\"", ":", "[", "\"", "S", "t", "o", "p", "\"", ",", "\"", "v", "i", "d", "\"", "]", "}">>

\* The state after Mount and OnOpen(1).
InitSuggest ==
    /\ phase = "mounted"
    /\ currentCommand = <<>>
    /\ messages = ConnectedLog
    /\ socket = 1
    /\ sockets = <<"OPEN">>
    /\ reconnectTimers = 0
    /\ healthCheckInterval = "armed"
    /\ healthFetches = 1
    /\ videoList = <<>>
    /\ filteredSuggestions = <<>>
    /\ selectedSuggestionIndex = -1
    /\ sent = <<>>
    /\ events = 2

NextSuggest ==
    \/ \E text \in SuggestInputs : TypeInput(text)
    \/ FilterSuggestions
    \/ SelectNextSuggestion
    \/ SelectPrevSuggestion
    \/ \E index \in 0..(Len(filteredSuggestions) - 1) : ChooseSuggestion(index)
    \/ HideSuggestions
    \/ OnMessage(1, VideosFrame)
    \/ SendCommand

SpecSuggest == InitSuggest /\ [][NextSuggest]_vars

(***************************************************************************)
(* Properties of the suggestions                                           *)
(***************************************************************************)
RECURSIVE NextTimes(_, _, _)
\* the cursor after k calls of selectNextSuggestion on n candidates
NextTimes(index, n, k) ==
    IF k = 0 THEN index ELSE NextTimes(NextIndex(index, n), n, k - 1)

\* C12, as stated: for a non-empty candidate set of size N and any cursor
\* position the engine can be in, the position -1 that holds right after
\* filtering included, N calls of next() leave the cursor where it was.
C12_NextCycleFromAnyCursor ==
    Len(filteredSuggestions) > 0 =>
        NextTimes(selectedSuggestionIndex, Len(filteredSuggestions),
                  Len(filteredSuggestions)) = selectedSuggestionIndex

\* C12, amended: for a non-empty candidate set of size N, N calls of
\* next() leave the cursor where it was if it was on a candidate (0..N-1);
\* from the position -1 that holds right after filtering they leave it on
\* the last candidate, N-1.
C12_NextCycleFromCandidate ==
    Len(filteredSuggestions) > 0 =>
        NextTimes(selectedSuggestionIndex, Len(filteredSuggestions),
                  Len(filteredSuggestions))
            = (IF selectedSuggestionIndex >= 0 THEN selectedSuggestionIndex
               ELSE Len(filteredSuggestions) - 1)

\* four candidates, and next() has moved the cursor from -1 to the last
C12_Witness ==
    /\ Len(filteredSuggestions) = 4
    /\ selectedSuggestionIndex = 3
    /\ currentCommand = filteredSuggestions[4]

\* input is a prefix of text, letter case ignored
PrefixIgnoringCase(input, text) ==
    /\ Len(input) <= Len(text)
    /\ \A i \in 1..Len(input) : LowerChar(text[i]) = LowerChar(input[i])

\* the text of the names of the known videos
VideoNames == [k \in 1..Len(videoList) |-> videoList[k].v]

\* the candidates for an input: none for the empty input; otherwise the
\* matching static commands in table order, then `video <name>` for the
\* matching known videos in list order
Candidates(input) ==
    IF input = <<>> THEN <<>>
    ELSE SelectSeq(knownCommands, LAMBDA cmd : PrefixIgnoringCase(input, cmd))
            \o SelectSeq([k \in 1..Len(VideoNames) |->
                            <<"v", "i", "d", "e", "o", " ">> \o VideoNames[k]],
                         LAMBDA entry : PrefixIgnoringCase(input, entry))

\* C13: filterSuggestions always leaves the cursor at -1 and sets the
\* candidate list to: empty for the empty input; otherwise the static
\* commands whose lower-cased text starts with the lower-cased input, in
\* table order, followed by `video <name>` for each known video whose
\* lower-cased rendering starts with it, in list order.  Run again on the
\* same input and vocabulary it gives the same candidates and cursor -1.
C13_FilterCandidates ==
    [][FilterSuggestions =>
          /\ selectedSuggestionIndex' = -1
          /\ filteredSuggestions' = Candidates(currentCommand)
          /\ Filtered(ToLowerCase(currentCommand'), videoList') = filteredSuggestions']_vars

\* "V" has been filtered with the videos Stop and vid known
C13_Witness ==
    /\ currentCommand = <<"V">>
    /\ selectedSuggestionIndex = -1
    /\ filteredSuggestions =
          <<knownCommands[2], knownCommands[3],
            <<"v", "i", "d", "e", "o", " ", "S", "t", "o", "p">>,
            <<"v", "i", "d", "e", "o", " ", "v", "i", "d">>>>

(***************************************************************************)
(* Inbound messages                                                        *)
(***************************************************************************)
\* Messages of the server, each with the severity its entry is to have:
\* JSON with an error field, with a status field, with neither; and text
\* that is no JSON, with "debug", with "error", with neither.
MessageCases ==
    {<<<<"{", "\"", "e", "r", "r", "o", "r", "\"", ":", "\"", "e", "1", "\"", ",", "\"", "s", "t", "a", "t", "u", "s", "\"", ":", "\"", "o", "k", "\"", "}">>,
       "error">>,
     <<<<"{", "\"", "s", "t", "a", "t", "u", "s", "\"", ":", "\"", "o", "k", "\"", ",", "\"", "e", "r", "r", "o", "r", "\"", ":", "\"", "e", "2", "\"", "}">>,
       "error">>,
     <<<<"{", "\"", "e", "r", "r", "o", "r", "\"", ":", "\"", "e", "3", "\"", ",", "\"", "v", "i", "d", "e", "o", "s", "\"", ":", "[", "\"", "a", "\"", "]", "}">>,
       "error">>,
     <<<<"{", "\"", "s", "t", "a", "t", "u", "s", "\"", ":", "\"", "s", "4", "\"", "}">>,
       "status">>,
     <<<<"{", "\"", "v", "i", "d", "e", "o", "s", "\"", ":", "[", "\"", "a", "\"", "]", "}">>,
       "info">>,
     <<<<"{", "\"", "x", "\"", ":", "\"", "d", "e", "b", "u", "g", "\"", "}">>,
       "info">>,
     <<<<"n", "u", "l", "l">>,
       "info">>,
     <<<<"D", "E", "B", "U", "G", " ", "x">>,
       "debug">>,
     <<<<"D", "e", "b", "u", "g", ":", " ", "e", "r", "r", "o", "r", " ", "y">>,
       "debug">>,
     <<<<"A", "n", " ", "E", "R", "R", "O", "R", " ", "o", "c", "c", "u", "r", "r", "e", "d">>,
       "error">>,
     <<<<"h", "e", "l", "l", "o">>,
       "info">>,
     <<<<"{", "\"", "e", "r", "r", "o", "r", "\"", ":">>,
       "error">>}

\* The state after Mount and OnOpen(1).
InitMessage ==
    /\ phase = "mounted"
    /\ currentCommand = <<>>
    /\ messages = ConnectedLog
    /\ socket = 1
    /\ sockets = <<"OPEN">>
    /\ reconnectTimers = 0
    /\ healthCheckInterval = "armed"
    /\ healthFetches = 1
    /\ videoList = <<>>
    /\ filteredSuggestions = <<>>
    /\ selectedSuggestionIndex = -1
    /\ sent = <<>>
    /\ events = 2

NextMessage == \E c \in MessageCases : OnMessage(1, c[1])

SpecMessage == InitMessage /\ [][NextMessage]_vars

C15_JsonPassThrough ==
    [][\A c \in JsonCases :
          (currentCommand = c[1] /\ SendCommand)
              => /\ sent' = Append(sent, Wire(socket, c[2]))
                 /\ AppendsOne("command")]_vars

\* {"command":"setall","data":"ff"} has been sent as typed
C15_Witness ==
    /\ currentCommand = <<>>
    /\ sent = <<Wire(1, <<"{", "\"", "c", "o", "m", "m", "a", "n", "d", "\"", ":", "\"", "s", "e", "t", "a", "l", "l", "\"", ",", "\"", "d", "a", "t", "a", "\"", ":", "\"", "f", "f", "\"", "}">>)>>
    /\ Len(messages) = Len(ConnectedLog) + 1

\* C16: a piano command whose controller or window value does not parse
\* as an integer, in the comma form or the two-token form, is refused
\* with a validation error and nothing is transmitted.
C16_PianoNaNRefused ==
    [][\A text \in PianoNaNTexts :
          (currentCommand = text /\ SendCommand) => Refused]_vars

(***************************************************************************)
(* Further properties of the session                                       *)
(***************************************************************************)
\* C17: a failed health audit (transport failure, response not ok, body
\* not parsable) appends exactly one error entry and does not stop the
\* periodic schedule: until teardown the interval stays armed, and a tick
\* of it starts a new audit, after any number of failed audits.
C17_FailedAuditKeepsSchedule ==
    /\ [][\A message \in HealthFailures :
             HealthResult(TRUE, message) =>
                 /\ AppendsOne("error")
                 /\ healthCheckInterval' = healthCheckInterval]_vars
    /\ [](phase = "mounted" => healthCheckInterval = "armed")
    /\ []((phase = "mounted" /\ events < MaxEvents) => ENABLED HealthTick)
    /\ [][HealthTick => healthFetches' = healthFetches + 1]_vars

\* two audits have failed and the next tick has started a third
C17_Witness ==
    /\ phase = "mounted"
    /\ Len(messages) = 7
    /\ messages[6].type = "error"
    /\ messages[7].type = "error"
    /\ healthFetches = 1

\* C18: a socket error event appends exactly one error entry and by
\* itself schedules no reconnect and creates no socket: a reconnect timer
\* is set only by a close event, and connect() after mount runs only when
\* such a timer fires.
C18_ErrorSchedulesNothing ==
    /\ [][(\E i \in 1..Len(sockets) : OnError(i)) =>
             /\ AppendsOne("error")
             /\ reconnectTimers' = reconnectTimers
             /\ sockets' = sockets
             /\ socket' = socket]_vars
    /\ [][reconnectTimers' > reconnectTimers => CloseStep]_vars
    /\ [][(ConnectStep /\ phase # "created") =>
             reconnectTimers' = reconnectTimers - 1]_vars

\* the open socket has reported an error; it is still the only socket and
\* no timer is pending
C18_Witness ==
    /\ Len(sockets) = 1
    /\ sockets[1] = "OPEN"
    /\ reconnectTimers = 0
    /\ messages[Len(messages)] =
          Entry(JStr(Lit("WebSocket Error: ") \o Lit("Unknown error")), "error")

\* C19: submitting input that is empty or only whitespace is a no-op: no
\* log entry is appended, nothing is transmitted, and the input text, the
\* candidate set, the cursor and the connection state are unchanged.
C19_EmptySubmitNoOp ==
    [][(Trim(currentCommand) = <<>> /\ SendCommand) =>
          UNCHANGED <<messages, sent, currentCommand, filteredSuggestions,
                      selectedSuggestionIndex, socket, sockets,
                      reconnectTimers>>]_vars

\* whitespace has been typed over a selected candidate and submitted
C19_Witness ==
    /\ currentCommand = <<" ", "\t">>
    /\ Len(filteredSuggestions) > 0
    /\ selectedSuggestionIndex >= 0
    /\ messages = ConnectedLog
    /\ sent = <<>>
    /\ events >= 5

\* C20: after teardown has run, no further health audit is started: the
\* interval installed at mount is cancelled by teardown.
C20_NoAuditAfterTeardown ==
    /\ [][phase' = "unmounted" => healthFetches' <= healthFetches]_vars
    /\ [](phase = "unmounted" => healthCheckInterval = "cleared")
    /\ [](phase = "unmounted" => ~ENABLED HealthTick)

\* teardown has run after a tick whose audit is still under way
C20_Witness ==
    /\ phase = "unmounted"
    /\ healthCheckInterval = "cleared"
    /\ healthFetches = 1
    /\ Len(messages) = 6
    /\ messages[6] = LitEntry("All devices are healthy.", "info")

(***************************************************************************)
(* Properties of the log                                                   *)
(***************************************************************************)
\* this step is socket.onmessage for one of the server's messages
MessageStep ==
    \E i \in 1..Len(sockets) : \E data \in InboundData : OnMessage(i, data)

\* this step is a submission that transmitted
SentStep == SubmitStep /\ Len(sent') = Len(sent) + 1

\* C21: after the handler of an inbound socket message or of a successful
\* send returns, the log holds at most MAX_MESSAGES (100) entries, however
\* long it was before the handler ran.
C21_EvictsDownToCap ==
    [][(MessageStep \/ SentStep) => Len(messages') <= MAX_MESSAGES]_vars

\* C22: the log is append-only and first-in first-out: every step leaves
\* it unchanged, appends entries at its tail, or appends at its tail and
\* removes its single oldest entry; the entries that remain keep their
\* text, their severity and their order of arrival.
C22_AppendOnlyFifo ==
    [][\E dropped \in 0..1 :
          /\ Len(messages') >= Len(messages)
          /\ \A k \in 1..(Len(messages) - dropped) :
                 messages'[k] = messages[k + dropped]]_vars

\* the log is at the cap, the welcome entry has been evicted, and the
\* newest entry is the debug message that took its place
C22_Witness ==
    /\ Len(messages) = MAX_MESSAGES
    /\ messages[1] = MountEntries[1]
    /\ messages[MAX_MESSAGES] = Entry(JStr(<<"D", "E", "B", "U", "G", " ", "x">>), "debug")

(***************************************************************************)
(* Properties of the video vocabulary                                      *)
(***************************************************************************)
\* the message parses as an object with an array-valued videos field and
\* neither an error nor a status field
PlainVideosFrame(data) ==
    /\ JSONParse(data).ok
    /\ JSONParse(data).v.t = "obj"
    /\ GetProp(JSONParse(data).v, K_videos).t = "arr"
    /\ GetProp(JSONParse(data).v, K_error).t = "undefined"
    /\ GetProp(JSONParse(data).v, K_status).t = "undefined"

\* C23: the known-video vocabulary changes only when an inbound message
\* parses as structured data, carries an array-valued videos field and is
\* not taken by the error or status branch; it is then replaced by exactly
\* that array and a display entry is still produced.  No other event
\* changes it.
C23_VideosOnlyFromPlainFrame ==
    [][videoList' # videoList =>
          \E c \in MessageCases :
              /\ OnMessage(1, c[1])
              /\ PlainVideosFrame(c[1])
              /\ videoList' = GetProp(JSONParse(c[1]).v, K_videos).v
              /\ Len(messages') = Len(messages) + 1]_vars

(***************************************************************************)
(* Further properties of the suggestions                                   *)
(***************************************************************************)
\* C24: choose(i), for a valid index i of the candidate list, sets the
\* input to candidate i, empties the candidate list and resets the cursor
\* to -1, and changes nothing else: not the log, the connection, the
\* video vocabulary or what has been transmitted.
C24_ChooseCommits ==
    [][\A i \in 0..(Len(filteredSuggestions) - 1) :
          ChooseSuggestion(i) =>
              /\ currentCommand' = filteredSuggestions[i + 1]
              /\ filteredSuggestions' = <<>>
              /\ selectedSuggestionIndex' = -1
              /\ UNCHANGED <<phase, messages, socket, sockets, reconnectTimers,
                             healthCheckInterval, healthFetches, videoList,
                             sent>>]_vars

\* the last of the four candidates for "V" has been chosen
C24_Witness ==
    /\ currentCommand = <<"v", "i", "d", "e", "o", " ", "v", "i", "d">>
    /\ filteredSuggestions = <<>>
    /\ selectedSuggestionIndex = -1
    /\ Len(videoList) = 2
    /\ sent = <<>>

\* C25: in every reachable state the cursor c and the candidate list
\* satisfy -1 <= c < length(candidates), so an empty list has cursor -1,
\* across any interleaving of filter, next, previous, choose, hide,
\* submissions that send or fail, and messages that replace the video
\* vocabulary.
C25_CursorInRange ==
    selectedSuggestionIndex \in -1..(Len(filteredSuggestions) - 1)

\* the cursor is on the last of the two candidates for "V" that were
\* filtered before the list of videos arrived
C25_Witness ==
    /\ Len(filteredSuggestions) = 2
    /\ selectedSuggestionIndex = 1
    /\ currentCommand = knownCommands[3]
    /\ Len(videoList) = 2

(***************************************************************************)
(* Properties of a submission that is sent                                 *)
(***************************************************************************)
\* every command entry of the log shows a message that has been
\* transmitted
CommandEntriesTransmitted ==
    \A k \in 1..Len(messages) :
        messages[k].type = "command" =>
            \E j \in 1..Len(sent) :
                messages[k].text = JStr(Lit("> ") \o sent[j].data)

InitConnected ==
    /\ phase = "mounted"
    /\ currentCommand = <<>>
    /\ messages = ConnectedLog
    /\ socket = 1
    /\ sockets = <<"OPEN">>
    /\ reconnectTimers = 0
    /\ healthCheckInterval = "armed"
    /\ healthFetches = 1
    /\ videoList = <<>>
    /\ filteredSuggestions = <<>>
    /\ selectedSuggestionIndex = -1
    /\ sent = <<>>
    /\ events = 0

SpecConnected == InitConnected /\ [][NextLog]_vars

\* the taxonomy of message severities
Severities == {"info", "status", "error", "warning", "debug", "command"}

\* C27: in every reachable state the severity of each log entry is one of
\* info, status, error, warning, debug, command; no handler appends an
\* entry of any other severity.
C27_SeveritiesClosed ==
    \A k \in 1..Len(messages) : messages[k].type \in Severities

\* the log holds an entry of each of the six severities
C27_Witness ==
    \A severity \in Severities :
        \E k \in 1..Len(messages) : messages[k].type = severity

====
